---- MODULE Spec2Model ----
(***************************************************************************)
(* analyze_and_clean_excel_file (src/analyze_and_clean_excel.py) as a      *)
(* state machine.  The function is one straight-line pipeline over a       *)
(* DataFrame: format the column names, check missing values, duplicates    *)
(* and dtypes, rstrip the string columns, format the date columns, draw    *)
(* the box plot and the distribution plots, describe the selected columns  *)
(* and assemble the results dictionary.  Each commented block of the       *)
(* function is one action; pc is the block about to run.                   *)
(*                                                                         *)
(* Line 36 of the source lacks the colon that ends its if statement and     *)
(* line 26 is an IPython magic; the model follows the statements as they   *)
(* read with the colon in place, and leaves out the notebook detection of  *)
(* lines 22-28, which touches no data.                                     *)
(*                                                                         *)
(* Strings are sequences of one-character strings, so that re.sub, lower,  *)
(* replace, rstrip, join and strftime are computed character by character. *)
(* None / NaN / NaT is the empty tuple and a present value v is <<v>>.     *)
(***************************************************************************)
EXTENDS Integers, Sequences, FiniteSets, TLC

VARIABLES
    pc,                      \* the block of the function about to run
    sheet,                   \* the DataFrame as pd.read_excel returned it
    exceptions,              \* the exceptions argument: list of (old, new)
    df,                      \* the DataFrame being cleaned
    missing_values_warning,
    duplicates,              \* df.duplicated().sum()
    duplicates_warning,
    data_types,
    numerical_columns,
    box_plot_title,
    dist_plots_title,
    df_summary,
    results,                 \* the returned dictionary
    plots,                   \* calls made to matplotlib / seaborn, in order
    passes                   \* header normalisations applied (SpecNormalize)

vars == <<pc, sheet, exceptions, df, missing_values_warning, duplicates,
          duplicates_warning, data_types, numerical_columns, box_plot_title,
          dist_plots_title, df_summary, results, plots, passes>>

-----------------------------------------------------------------------------
(* Optional values *)

None == <<>>

Some(v) == <<v>>

-----------------------------------------------------------------------------
(* Small sequence helpers *)

Range(s) == {s[i] : i \in DOMAIN s}

RECURSIVE SumSeq(_)
SumSeq(s) == IF s = <<>> THEN 0 ELSE Head(s) + SumSeq(Tail(s))

RECURSIVE Concat(_)
Concat(ss) == IF ss = <<>> THEN <<>> ELSE Head(ss) \o Concat(Tail(ss))

\* sep.join(parts)
RECURSIVE Join(_, _)
Join(sep, parts) ==
    IF parts = <<>> THEN <<>>
    ELSE IF Len(parts) = 1 THEN Head(parts)
    ELSE Head(parts) \o sep \o Join(sep, Tail(parts))

-----------------------------------------------------------------------------
(* Characters *)

UpperChars == <<"A", "B", "C", "D", "E", "F", "G", "H", "I", "J", "K", "L", "M", "N", "O", "P", "Q", "R", "S", "T", "U", "V", "W", "X", "Y", "Z">>

LowerChars == <<"a", "b", "c", "d", "e", "f", "g", "h", "i", "j", "k", "l", "m", "n", "o", "p", "q", "r", "s", "t", "u", "v", "w", "x", "y", "z">>

Digits == <<"0", "1", "2", "3", "4", "5", "6", "7", "8", "9">>

\* the regex class [A-Z]
IsUpper(c) == c \in Range(UpperChars)

\* the regex class [a-z]
IsLower(c) == c \in Range(LowerChars)

\* str.lower on one character
ToLower(c) ==
    IF IsUpper(c)
    THEN LowerChars[CHOOSE i \in DOMAIN UpperChars : UpperChars[i] = c]
    ELSE c

\* the characters str.rstrip() removes
IsWhitespace(c) == c \in {" ", "\t", "\n"}

-----------------------------------------------------------------------------
(* Column-name formatting, lines 33-46 *)

\* re.sub('(?<!^)(?=[A-Z][a-z])', '_', col): the empty match at position i
\* (before col[i]) is replaced when i is not the start of the string and
\* col[i], col[i+1] are an upper-case and a lower-case letter.
RegexMatchAt(col, i) ==
    /\ i > 1
    /\ i + 1 <= Len(col)
    /\ IsUpper(col[i])
    /\ IsLower(col[i + 1])

ReSub(col) ==
    Concat([i \in 1..Len(col) |->
              IF RegexMatchAt(col, i) THEN <<"_", col[i]>> ELSE <<col[i]>>])

StrLower(s) == [i \in 1..Len(s) |-> ToLower(s[i])]

\* s.replace(" ", "_")
ReplaceSpaces(s) == [i \in 1..Len(s) |-> IF s[i] = " " THEN "_" ELSE s[i]]

\* a faulty variant of SnakeCase: .lower() left out
SnakeCaseNoLower(col) == ReplaceSpaces(ReSub(col))

\* line 39
SnakeCase(col) == ReplaceSpaces(StrLower(ReSub(col)))

\* col in [e[0] for e in exceptions]
IsException(rules, col) == \E k \in DOMAIN rules : rules[k][1] = col

\* a faulty variant of ExceptionTarget: the last matching rule instead of the first
ExceptionTargetLast(rules, col) ==
    LET k == CHOOSE j \in DOMAIN rules :
                 /\ rules[j][1] = col
                 /\ \A h \in DOMAIN rules : rules[h][1] = col => h <= j
    IN  rules[k][2]

\* [e[1] for e in exceptions if e[0] == col][0]
ExceptionTarget(rules, col) ==
    LET k == CHOOSE j \in DOMAIN rules :
                 /\ rules[j][1] = col
                 /\ \A h \in DOMAIN rules : rules[h][1] = col => j <= h
    IN  rules[k][2]

\* lines 35-40, one iteration
NewCol(rules, col) ==
    IF rules # <<>> /\ IsException(rules, col)
    THEN ExceptionTarget(rules, col)
    ELSE SnakeCase(col)

\* line 46: df.rename(columns={old_col: new_col}) on the list of names
RenameColumns(names, old_col, new_col) ==
    [i \in 1..Len(names) |-> IF names[i] = old_col THEN new_col ELSE names[i]]

\* lines 43-46: rules k.. applied in list order
RECURSIVE RenamePass(_, _, _)
RenamePass(names, rules, k) ==
    IF k > Len(rules) THEN names
    ELSE IF rules[k][1] \in Range(names)
         THEN RenamePass(RenameColumns(names, rules[k][1], rules[k][2]), rules, k + 1)
         ELSE RenamePass(names, rules, k + 1)

\* lines 34-46: the final list of column names
FormattedNames(rules, names) ==
    RenamePass([i \in 1..Len(names) |-> NewCol(rules, names[i])], rules, 1)

-----------------------------------------------------------------------------
(* The DataFrame: a sequence of columns [name, dtype, vals, pos].  vals is  *)
(* the column's cells, None for a missing one; pos is the column's position *)
(* in the sheet as read.                                                    *)

Names(t) == [i \in 1..Len(t) |-> t[i].name]

NRows(t) == Len(t[1].vals)

\* df.columns = new_cols / df.rename(columns=...)
WithNames(t, names) == [i \in 1..Len(t) |-> [t[i] EXCEPT !.name = names[i]]]

\* the row at index r, as df.duplicated() compares it
Row(t, r) == [c \in 1..Len(t) |-> t[c].vals[r]]

\* a label that selects more than one column: df[label] is then a DataFrame
IsAmbiguous(t, name) == Cardinality({i \in 1..Len(t) : t[i].name = name}) > 1

-----------------------------------------------------------------------------
(* Missing values, lines 48-54 *)

\* df.isnull().sum(), one column
NullCount(col) ==
    SumSeq([r \in 1..Len(col.vals) |-> IF col.vals[r] = None THEN 1 ELSE 0])

\* df.isnull().sum(): the Series of (column label, count)
MissingValues(t) ==
    [i \in 1..Len(t) |-> [name |-> t[i].name, count |-> NullCount(t[i])]]

NonZero(e) == e.count > 0

\* a faulty variant of MissingValuesWarning: the Series is not filtered
MissingValuesWarningUnfiltered(t) ==
    LET missing_values == MissingValues(t)
    IN  IF SumSeq([i \in 1..Len(t) |-> missing_values[i].count]) > 0
        THEN Some(missing_values)
        ELSE None

\* lines 50-54; the text of the warning is modelled by the entries of the
\* Series it prints
MissingValuesWarning(t) ==
    LET missing_values == MissingValues(t)
    IN  IF SumSeq([i \in 1..Len(t) |-> missing_values[i].count]) > 0
        THEN Some(SelectSeq(missing_values, NonZero))
        ELSE None

-----------------------------------------------------------------------------
(* Duplicates, lines 56-61 *)

\* a faulty variant of Duplicated: every member of a group of equal rows is marked
DuplicatedKeepNone(t, r) == \E q \in 1..NRows(t) : q # r /\ Row(t, q) = Row(t, r)

\* df.duplicated() with the default keep='first', one row
Duplicated(t, r) == \E q \in 1..(r - 1) : Row(t, q) = Row(t, r)

\* df.duplicated().sum()
DuplicatedSum(t) ==
    SumSeq([r \in 1..NRows(t) |-> IF Duplicated(t, r) THEN 1 ELSE 0])

\* lines 58-61; the text of the warning is modelled by the count it prints
DuplicatesWarning(n) == IF n > 0 THEN Some(n) ELSE None

\* lines 64-65: str(df.dtypes), modelled by its entries
DataTypes(t) == [i \in 1..Len(t) |-> <<t[i].name, t[i].dtype>>]

-----------------------------------------------------------------------------
(* rstrip, lines 67-69 *)

RECURSIVE LStrip(_)
LStrip(s) ==
    IF s # <<>> /\ IsWhitespace(Head(s)) THEN LStrip(Tail(s)) ELSE s

\* str.rstrip()
RECURSIVE RStrip(_)
RStrip(s) ==
    IF s # <<>> /\ IsWhitespace(s[Len(s)])
    THEN RStrip(SubSeq(s, 1, Len(s) - 1))
    ELSE s

\* a faulty variant of StrRStrip: strip() on both ends
StrStripBoth(cell) == IF cell = None THEN None ELSE Some(LStrip(RStrip(cell[1])))

\* x.str.rstrip(), one cell: a missing cell stays missing
StrRStrip(cell) == IF cell = None THEN None ELSE Some(RStrip(cell[1]))

\* df.select_dtypes(include=['object']).columns.tolist()
StringCols(t) == Names(SelectSeq(t, LAMBDA c : c.dtype = "object"))

\* line 69 when every label of string_cols selects one column
RStripped(t) ==
    [i \in 1..Len(t) |->
       IF t[i].dtype = "object"
       THEN [t[i] EXCEPT !.vals = [r \in 1..Len(t[i].vals) |-> StrRStrip(t[i].vals[r])]]
       ELSE t[i]]

-----------------------------------------------------------------------------
(* Dates, lines 71-74 *)

Pad2(n) == <<Digits[((n \div 10) % 10) + 1], Digits[(n % 10) + 1]>>

Pad4(n) == Pad2(n \div 100) \o Pad2(n % 100)

\* strftime('%m/%d/%Y'), one cell: NaT becomes a missing string
Strftime(cell) ==
    IF cell = None THEN None
    ELSE Some(Pad2(cell[1].month) \o <<"/">> \o Pad2(cell[1].day) \o <<"/">>
              \o Pad4(cell[1].year))

\* df.select_dtypes(include=np.datetime64).columns
DateCols(t) == Names(SelectSeq(t, LAMBDA c : c.dtype = "datetime64"))

\* a faulty variant of DatesFormatted: the formatted column is appended under a
\* new label and the date column is dropped
DatesFormattedAppended(t) ==
    SelectSeq(t, LAMBDA c : c.dtype # "datetime64")
    \o [i \in 1..Len(SelectSeq(t, LAMBDA c : c.dtype = "datetime64")) |->
          LET c == SelectSeq(t, LAMBDA d : d.dtype = "datetime64")[i]
          IN  [c EXCEPT !.dtype = "object",
                        !.vals = [r \in 1..Len(c.vals) |-> Strftime(c.vals[r])]]]

\* lines 73-74 when every label of date_cols selects one column
DatesFormatted(t) ==
    [i \in 1..Len(t) |->
       IF t[i].dtype = "datetime64"
       THEN [t[i] EXCEPT !.dtype = "object",
                         !.vals = [r \in 1..Len(t[i].vals) |-> Strftime(t[i].vals[r])]]
       ELSE t[i]]

-----------------------------------------------------------------------------
(* Outliers, distributions and summary, lines 76-103 *)

BoxPlotPrefix == <<"B", "o", "x", " ", "p", "l", "o", "t", " ", "o", "f", " ", "d", "a", "t", "a", " ", "v", "a", "l", "u", "e", "s", " ", "f", "o", "r", " ">>

DistPrefix == <<"D", "i", "s", "t", "r", "i", "b", "u", "t", "i", "o", "n", " ", "o", "f", " ">>

JoinSep == <<",", " ">>

DistinctThreshold == 10

\* df.select_dtypes(include=[int, float]).columns.tolist()
NumericalColumns(t) ==
    Names(SelectSeq(t, LAMBDA c : c.dtype \in {"int64", "float64"}))

\* df[col] for a label that selects one column
ColumnOf(t, name) == t[CHOOSE i \in 1..Len(t) : t[i].name = name]

\* df[col].unique(): the distinct cells, a missing cell (NaN) being one of them
Unique(col) == Range(col.vals)

\* a faulty variant of ManyValued: >= in place of >
ManyValuedInclusive(t, name) ==
    Cardinality(Unique(ColumnOf(t, name))) >= DistinctThreshold

\* len(df[col].unique()) > 10
ManyValued(t, name) == Cardinality(Unique(ColumnOf(t, name))) > DistinctThreshold

\* line 81
FilterManyValued(t, cols) == SelectSeq(cols, LAMBDA name : ManyValued(t, name))

\* line 82
BoxPlotTitle(cols) == BoxPlotPrefix \o Join(JoinSep, cols)

\* lines 83-85
BoxPlotCall(cols) == [call |-> "boxplot", cols |-> cols, title |-> BoxPlotTitle(cols)]

\* lines 93-95
DistPlotCall(name) ==
    [call |-> "distplot", cols |-> <<name>>, title |-> DistPrefix \o name]

\* a faulty variant of DistPlotCalls: the columns are walked last to first
DistPlotCallsReversed(cols) ==
    [i \in 1..Len(cols) |-> DistPlotCall(cols[Len(cols) + 1 - i])]

\* lines 92-95: one call per column, in list order
DistPlotCalls(cols) == [i \in 1..Len(cols) |-> DistPlotCall(cols[i])]

Present(col) == {col.vals[r][1] : r \in {q \in 1..Len(col.vals) : col.vals[q] # None}}

\* df[numerical_columns].describe(): count, min and max of each column (the
\* mean, the standard deviation and the quartiles are not modelled)
Describe(t, cols) ==
    [i \in 1..Len(cols) |->
       LET col == ColumnOf(t, cols[i])
           xs  == Present(col)
       IN  [name  |-> cols[i],
            count |-> Len(col.vals) - NullCount(col),
            min   |-> IF xs = {} THEN None
                      ELSE Some(CHOOSE x \in xs : \A y \in xs : x <= y),
            max   |-> IF xs = {} THEN None
                      ELSE Some(CHOOSE x \in xs : \A y \in xs : y <= x)]]

-----------------------------------------------------------------------------
(* Inputs: the sheets pd.read_excel may return and the exceptions lists     *)

S_EXAMPLEID == <<"E", "X", "A", "M", "P", "L", "E", "I", "D">>

S_example_id == <<"e", "x", "a", "m", "p", "l", "e", "_", "i", "d">>

S_UserId == <<"U", "s", "e", "r", "I", "d">>

S_user_id == <<"u", "s", "e", "r", "_", "i", "d">>

S_TotalAmount == <<"T", "o", "t", "a", "l", " ", "A", "m", "o", "u", "n", "t">>

S_abc_padded == <<" ", "a", "b", "c", " ", " ">>

S_abc == <<"a", "b", "c">>

\* the default of the exceptions parameter, line 1
DefaultExceptions == << <<S_EXAMPLEID, S_example_id>> >>

MaxCols == 2

MaxHeaderLen == 4

MaxPasses == 2

\* row counts: two rows, and the threshold of line 81 and one more
RowCounts == {2, DistinctThreshold, DistinctThreshold + 1}

Kinds == {"flag", "cycle", "ramp", "ramp_nan", "text", "date", "bool"}

KindDtype(kind) ==
    CASE kind = "flag"     -> "int64"
      [] kind = "cycle"    -> "int64"
      [] kind = "ramp"     -> "int64"
      [] kind = "ramp_nan" -> "float64"
      [] kind = "text"     -> "object"
      [] kind = "date"     -> "datetime64"
      [] kind = "bool"     -> "bool"

\* the cells of a column of n rows:
\*   flag      0, 0, 1, 1, 0, 0, ...            (two distinct values)
\*   cycle     1, 2, ..., 9, 0, 1, 2, ...       (at most 10 distinct values)
\*   ramp      1, 2, ..., n                     (n distinct values)
\*   ramp_nan  1, 2, ..., n - 1, then NaN       (n - 1 numbers and a NaN)
\*   text      " abc  ", "abc", None, repeated
\*   date      2024-03-05 twice, then 1999-12-31
\*   bool      False, True, repeated
KindVals(kind, n) ==
    [r \in 1..n |->
       CASE kind = "flag"     -> Some(((r - 1) \div 2) % 2)
         [] kind = "cycle"    -> Some(r % DistinctThreshold)
         [] kind = "ramp"     -> Some(r)
         [] kind = "ramp_nan" -> IF r = n THEN None ELSE Some(r)
         [] kind = "text"     -> IF r % 3 = 1 THEN Some(S_abc_padded)
                                 ELSE IF r % 3 = 2 THEN Some(S_abc) ELSE None
         [] kind = "date"     -> IF r <= 2
                                 THEN Some([year |-> 2024, month |-> 3, day |-> 5])
                                 ELSE Some([year |-> 1999, month |-> 12, day |-> 31])
         [] kind = "bool"     -> Some(r % 2 = 0)]

\* the sheet of k columns and n rows with labels nm[i] and cells of kind kd[i]
Sheet(k, n, nm, kd) ==
    [i \in 1..k |-> [name  |-> nm[i],
                     dtype |-> KindDtype(kd[i]),
                     vals  |-> KindVals(kd[i], n),
                     pos   |-> i]]

NamePool == {S_EXAMPLEID, S_UserId, S_user_id}

ExceptionsPool ==
    { DefaultExceptions,
      << <<S_EXAMPLEID, S_UserId>>, <<S_UserId, S_example_id>> >> }

\* wider labels and exceptions lists, for the column-name block
WideNamePool == {S_EXAMPLEID, S_UserId, S_user_id, S_example_id, S_TotalAmount}

RulePairs == {<<S_EXAMPLEID, S_example_id>>, <<S_EXAMPLEID, S_UserId>>,
              <<S_UserId, S_example_id>>, <<S_example_id, S_EXAMPLEID>>,
              <<S_TotalAmount, S_TotalAmount>>}

WideExceptionsPool ==
    {<<>>} \cup {<<p>> : p \in RulePairs} \cup {<<p, q>> : p, q \in RulePairs}

\* every string over the alphabet of length up to MaxHeaderLen
HeaderAlphabet == {"A", "B", "a", "b", " ", "_"}

Headers == UNION {[1..k -> HeaderAlphabet] : k \in 0..MaxHeaderLen}

-----------------------------------------------------------------------------
(* The function *)

\* the locals before their first assignment
Start(t, rules, at) ==
    /\ pc = at
    /\ sheet = t
    /\ df = t
    /\ exceptions = rules
    /\ missing_values_warning = None
    /\ duplicates = 0
    /\ duplicates_warning = None
    /\ data_types = None
    /\ numerical_columns = <<>>
    /\ box_plot_title = None
    /\ dist_plots_title = None
    /\ df_summary = None
    /\ results = None
    /\ plots = <<>>
    /\ passes = 0

\* line 31 has run: df is the sheet, of up to MaxCols columns
Init ==
    \E k \in 1..MaxCols, n \in RowCounts :
      \E nm \in [1..k -> NamePool], kd \in [1..k -> Kinds] :
        \E rules \in ExceptionsPool :
          Start(Sheet(k, n, nm, kd), rules, "format")

RenameKinds == {"ramp", "text"}

InitRename ==
    \E k \in 1..MaxCols :
      \E nm \in [1..k -> WideNamePool], kd \in [1..k -> RenameKinds] :
        \E rules \in WideExceptionsPool :
          Start(Sheet(k, DistinctThreshold + 1, nm, kd), rules, "format")

InitNormalize ==
    \E h \in Headers :
        Start(<<[name |-> h, dtype |-> "object", vals |-> <<>>, pos |-> 1]>>,
              <<>>, "normalize")

\* lines 33-46
FormatColumnNames ==
    /\ pc = "format"
    /\ df' = WithNames(df, FormattedNames(exceptions, Names(df)))
    /\ pc' = "missing"
    /\ UNCHANGED <<sheet, exceptions, missing_values_warning, duplicates,
                   duplicates_warning, data_types, numerical_columns,
                   box_plot_title, dist_plots_title, df_summary, results,
                   plots, passes>>

\* lines 48-54
CheckMissingValues ==
    /\ pc = "missing"
    /\ missing_values_warning' = MissingValuesWarning(df)
    /\ pc' = "duplicates"
    /\ UNCHANGED <<sheet, exceptions, df, duplicates, duplicates_warning,
                   data_types, numerical_columns, box_plot_title,
                   dist_plots_title, df_summary, results, plots, passes>>

\* lines 56-61
CheckDuplicates ==
    /\ pc = "duplicates"
    /\ duplicates' = DuplicatedSum(df)
    /\ duplicates_warning' = DuplicatesWarning(DuplicatedSum(df))
    /\ pc' = "dtypes"
    /\ UNCHANGED <<sheet, exceptions, df, missing_values_warning, data_types,
                   numerical_columns, box_plot_title, dist_plots_title,
                   df_summary, results, plots, passes>>

\* lines 63-65
CheckDataTypes ==
    /\ pc = "dtypes"
    /\ data_types' = Some(DataTypes(df))
    /\ pc' = "rstrip"
    /\ UNCHANGED <<sheet, exceptions, df, missing_values_warning, duplicates,
                   duplicates_warning, numerical_columns, box_plot_title,
                   dist_plots_title, df_summary, results, plots, passes>>

\* lines 67-69.  When a label of string_cols selects several columns,
\* df[string_cols] has more columns than string_cols has labels and whether
\* the assignment goes through depends on the pandas version: both outcomes.
ApplyRStrip ==
    /\ pc = "rstrip"
    /\ \/ /\ df' = RStripped(df)
          /\ pc' = "dates"
       \/ /\ \E name \in Range(StringCols(df)) : IsAmbiguous(df, name)
          /\ df' = df
          /\ pc' = "error"
    /\ UNCHANGED <<sheet, exceptions, missing_values_warning, duplicates,
                   duplicates_warning, data_types, numerical_columns,
                   box_plot_title, dist_plots_title, df_summary, results,
                   plots, passes>>

\* the position of the first date column whose label is ambiguous, or
\* Len(t) + 1: df[col].dt raises there (a DataFrame has no .dt)
FirstBadDate(t) ==
    LET bad == {i \in 1..Len(t) :
                  t[i].dtype = "datetime64" /\ IsAmbiguous(t, t[i].name)}
    IN  IF bad = {} THEN Len(t) + 1
        ELSE CHOOSE i \in bad : \A j \in bad : i <= j

\* lines 71-74: the loop stops at the first ambiguous label
FormatDates ==
    /\ pc = "dates"
    /\ LET stop == FirstBadDate(df)
           done == DatesFormatted(df)
       IN  /\ df' = [i \in 1..Len(df) |-> IF i < stop THEN done[i] ELSE df[i]]
           /\ pc' = IF stop > Len(df) THEN "boxplot" ELSE "error"
    /\ UNCHANGED <<sheet, exceptions, missing_values_warning, duplicates,
                   duplicates_warning, data_types, numerical_columns,
                   box_plot_title, dist_plots_title, df_summary, results,
                   plots, passes>>

\* lines 76-87.  df[col].unique() raises for an ambiguous label (a DataFrame
\* has no .unique).  plt.boxplot is called whenever the sheet has a numeric
\* column, also with no column left after line 81; what matplotlib does with
\* an array of no columns depends on its version: it returns or raises.
BoxPlot ==
    /\ pc = "boxplot"
    /\ LET numeric == NumericalColumns(df)
       IN  IF Len(numeric) > 0
           THEN IF \E name \in Range(numeric) : IsAmbiguous(df, name)
                THEN /\ numerical_columns' = numeric
                     /\ pc' = "error"
                     /\ UNCHANGED <<box_plot_title, plots>>
                ELSE /\ numerical_columns' = FilterManyValued(df, numeric)
                     /\ box_plot_title' = Some(BoxPlotTitle(numerical_columns'))
                     /\ plots' = Append(plots, BoxPlotCall(numerical_columns'))
                     /\ \/ pc' = "distplots"
                        \/ numerical_columns' = <<>> /\ pc' = "error"
           ELSE /\ numerical_columns' = numeric
                /\ box_plot_title' = None
                /\ pc' = "distplots"
                /\ UNCHANGED plots
    /\ UNCHANGED <<sheet, exceptions, df, missing_values_warning, duplicates,
                   duplicates_warning, data_types, dist_plots_title,
                   df_summary, results, passes>>


\* line 91
DistPlotsTitle == "Distribution plots for numerical columns"

\* lines 89-97
DistPlots ==
    /\ pc = "distplots"
    /\ IF Len(numerical_columns) > 0
       THEN /\ dist_plots_title' = Some(DistPlotsTitle)
            /\ plots' = plots \o DistPlotCalls(numerical_columns)
       ELSE /\ dist_plots_title' = None
            /\ UNCHANGED plots
    /\ pc' = "summary"
    /\ UNCHANGED <<sheet, exceptions, df, missing_values_warning, duplicates,
                   duplicates_warning, data_types, numerical_columns,
                   box_plot_title, df_summary, results, passes>>

\* lines 99-103
Summary ==
    /\ pc = "summary"
    /\ df_summary' = IF Len(numerical_columns) > 0
                     THEN Some(Describe(df, numerical_columns))
                     ELSE None
    /\ pc' = "results"
    /\ UNCHANGED <<sheet, exceptions, df, missing_values_warning, duplicates,
                   duplicates_warning, data_types, numerical_columns,
                   box_plot_title, dist_plots_title, results, plots, passes>>

\* lines 105-115
Results ==
    /\ pc = "results"
    /\ results' = Some([missing_values_warning |-> missing_values_warning,
                        duplicates_warning     |-> duplicates_warning,
                        data_types             |-> data_types,
                        box_plot_title         |-> box_plot_title,
                        dist_plots_title       |-> dist_plots_title,
                        dataframe_summary      |-> df_summary])
    /\ pc' = "done"
    /\ UNCHANGED <<sheet, exceptions, df, missing_values_warning, duplicates,
                   duplicates_warning, data_types, numerical_columns,
                   box_plot_title, dist_plots_title, df_summary, plots, passes>>

Next ==
    \/ FormatColumnNames
    \/ CheckMissingValues
    \/ CheckDuplicates
    \/ CheckDataTypes
    \/ ApplyRStrip
    \/ FormatDates
    \/ BoxPlot
    \/ DistPlots
    \/ Summary
    \/ Results

Spec == Init /\ [][Next]_vars

\* the same function on sheets and exceptions lists chosen for their labels
SpecRename == InitRename /\ [][Next]_vars

\* line 39 applied to a header, and to its own result
NormalizeHeader ==
    /\ pc = "normalize"
    /\ passes < MaxPasses
    /\ df' = WithNames(df, [i \in 1..Len(df) |-> SnakeCase(df[i].name)])
    /\ passes' = passes + 1
    /\ UNCHANGED <<pc, sheet, exceptions, missing_values_warning, duplicates,
                   duplicates_warning, data_types, numerical_columns,
                   box_plot_title, dist_plots_title, df_summary, results, plots>>

NextNormalize == NormalizeHeader

SpecNormalize == InitNormalize /\ [][NextNormalize]_vars

-----------------------------------------------------------------------------
(* Properties *)

\* blocks that have run, by pc ("error" is left out: the block that raised
\* did not finish)
PastBoxPlot == pc \in {"distplots", "summary", "results", "done"}

PastRStrip == pc \in {"dates", "boxplot", "distplots", "summary", "results", "done"}

PastDistPlots == pc \in {"summary", "results", "done"}

IsNumeric(col) == col.dtype \in {"int64", "float64"}

\* the number of distinct cells of a column, a missing cell counted as one
\* value, as Series.unique() lists it
DistinctCells(col) == Cardinality({col.vals[r] : r \in 1..Len(col.vals)})

\* the labels of the numeric columns with more than DistinctThreshold
\* distinct cells, in the order of the table
ExpectedSelection ==
    Names(SelectSeq(df, LAMBDA c : IsNumeric(c) /\ DistinctCells(c) > DistinctThreshold))

\* C1: when the outlier selection is empty, the returned report has no box
\* plot title, no distribution plots title and no summary, and no plotting
\* call was made.
C1_EmptySelectionNoOutput ==
    (pc = "done" /\ numerical_columns = <<>>) =>
        /\ results[1].box_plot_title = None
        /\ results[1].dist_plots_title = None
        /\ results[1].dataframe_summary = None
        /\ plots = <<>>

\* rule k is the first rule of the exceptions list whose source is name
FirstRuleFor(name, k) ==
    /\ k \in DOMAIN exceptions
    /\ exceptions[k][1] = name
    /\ \A h \in 1..(k - 1) : exceptions[h][1] # name

\* C2 as stated: a column whose original label is the source of a rule ends
\* up with the target of the first such rule, whatever the other rules are.
C2_RuleTargetVerbatim ==
    pc # "format" =>
        \A i \in 1..Len(sheet) : \A k \in DOMAIN exceptions :
            FirstRuleFor(sheet[i].name, k) => df[i].name = exceptions[k][2]

\* C2 amended: a column whose original label is the source of a rule ends up
\* with the target of the first such rule, provided that target is not the
\* source of a rule with a different target (the second pass over the rules
\* would rename it again).
C2_RuleTargetUnlessRenamedAgain ==
    pc # "format" =>
        \A i \in 1..Len(sheet) : \A k \in DOMAIN exceptions :
            ( /\ FirstRuleFor(sheet[i].name, k)
              /\ \A h \in DOMAIN exceptions :
                    exceptions[h][1] = exceptions[k][2]
                        => exceptions[h][2] = exceptions[k][2] )
            => df[i].name = exceptions[k][2]

\* two rules for EXAMPLEID with different targets: the column got the first
C2_Witness ==
    /\ pc = "done"
    /\ Len(exceptions) = 2
    /\ exceptions[1][1] = S_EXAMPLEID
    /\ exceptions[2][1] = S_EXAMPLEID
    /\ exceptions[1][2] = S_example_id
    /\ exceptions[2][2] = S_UserId
    /\ \E i \in 1..Len(sheet) :
          sheet[i].name = S_EXAMPLEID /\ df[i].name = S_example_id

\* C3: every table that reaches the blocks after the column-name block has
\* pairwise distinct column labels (a conflict would have been raised).
C3_UniqueNamesPastFormat ==
    pc # "format" =>
        \A i, j \in 1..Len(df) : df[i].name = df[j].name => i = j

\* C4: after every block the table has the rows and the columns of the sheet
\* as read, the columns in their original order: column i is the sheet's
\* column i, of the same dtype unless it was a date column turned to text.
C4_ShapeAndOrderKept ==
    /\ Len(df) = Len(sheet)
    /\ \A i \in 1..Len(df) :
          /\ Len(df[i].vals) = Len(sheet[i].vals)
          /\ df[i].pos = i
          /\ \/ df[i].dtype = sheet[i].dtype
             \/ sheet[i].dtype = "datetime64" /\ df[i].dtype = "object"
          /\ sheet[i].dtype \notin {"datetime64", "object"}
                => df[i].vals = sheet[i].vals

\* the function returned a table of two columns, a date column first
C4_Witness ==
    /\ pc = "done"
    /\ Len(df) = 2
    /\ NRows(df) = DistinctThreshold + 1
    /\ sheet[1].dtype = "datetime64"
    /\ df[1].dtype = "object"
    /\ sheet[2].dtype = "int64"

\* C5: no distribution plot is requested before the box plot; and once the
\* plots are drawn for a non-empty selection, the calls are one box plot
\* over the selected columns, titled with their labels joined by ", ", then
\* one distribution plot per selected column, in the order of the table.
C5_PlotOrder ==
    /\ \A j \in 1..Len(plots) :
          plots[j].call = "distplot" => (j > 1 /\ plots[1].call = "boxplot")
    /\ (PastBoxPlot /\ ~PastDistPlots /\ numerical_columns # <<>>) =>
          Len(plots) = 1
    /\ (PastDistPlots /\ numerical_columns # <<>>) =>
          /\ Len(plots) = 1 + Len(ExpectedSelection)
          /\ plots[1] = [call  |-> "boxplot",
                         cols  |-> ExpectedSelection,
                         title |-> BoxPlotPrefix \o Join(JoinSep, ExpectedSelection)]
          /\ \A j \in 1..Len(ExpectedSelection) :
                plots[j + 1] = [call  |-> "distplot",
                                cols  |-> <<ExpectedSelection[j]>>,
                                title |-> DistPrefix \o ExpectedSelection[j]]

S_TitleTwo == BoxPlotPrefix \o S_user_id \o <<",", " ">> \o S_example_id

\* two selected columns, user_id before example_id: three calls in order
C5_Witness ==
    /\ pc = "done"
    /\ Len(plots) = 3
    /\ plots[1].call = "boxplot"
    /\ plots[1].title = S_TitleTwo
    /\ plots[2].title = DistPrefix \o S_user_id
    /\ plots[3].title = DistPrefix \o S_example_id

C7_PaddedBecomesAbc ==
    PastRStrip =>
        \A i \in 1..Len(df) :
            /\ sheet[i].dtype = "object" =>
                  \A r \in 1..Len(df[i].vals) :
                      sheet[i].vals[r] = Some(S_abc_padded) => df[i].vals[r] = Some(S_abc)
            /\ IsNumeric(sheet[i]) => df[i].vals = sheet[i].vals

S_abc_lead == <<" ", "a", "b", "c">>

\* C7 amended: after the rstrip block a text cell " abc  " is " abc" (the
\* trailing spaces removed, the leading space kept) and the numeric columns
\* are unchanged.
C7_PaddedKeepsLeadingSpace ==
    PastRStrip =>
        \A i \in 1..Len(df) :
            /\ sheet[i].dtype = "object" =>
                  \A r \in 1..Len(df[i].vals) :
                      sheet[i].vals[r] = Some(S_abc_padded) => df[i].vals[r] = Some(S_abc_lead)
            /\ IsNumeric(sheet[i]) => df[i].vals = sheet[i].vals

\* the rstrip block has just run on a text column holding " abc  " beside a
\* numeric column
C7_Witness ==
    /\ pc = "dates"
    /\ Len(df) = 2
    /\ sheet[1].dtype = "object"
    /\ sheet[1].vals[1] = Some(S_abc_padded)
    /\ df[1].vals[1] = Some(S_abc_lead)
    /\ IsNumeric(sheet[2])

\* C8: normalising a header twice gives what normalising it once gives.
C8_NormalizeIdempotent ==
    (pc = "normalize" /\ passes >= 2) => df[1].name = SnakeCase(sheet[1].name)

\* "aAb" was normalised twice and is "a_ab"
C8_Witness ==
    /\ pc = "normalize"
    /\ passes = 2
    /\ sheet[1].name = <<"a", "A", "b">>
    /\ df[1].name = <<"a", "_", "a", "b">>

\* the missing cells of column i
MissingCells(i) == {r \in 1..Len(df[i].vals) : df[i].vals[r] = None}

\* C9: the missing-values warning is None exactly when no cell is missing;
\* otherwise it lists the columns with a missing cell, each with its count,
\* in table order, and no other column; the report carries it.
C9_MissingValuesWarning ==
    pc \notin {"format", "missing", "normalize"} =>
        LET with == SelectSeq([i \in 1..Len(df) |-> i],
                              LAMBDA i : MissingCells(i) # {})
        IN  /\ (missing_values_warning = None) <=> (with = <<>>)
            /\ missing_values_warning # None =>
                  missing_values_warning[1] =
                      [j \in 1..Len(with) |->
                         [name  |-> df[with[j]].name,
                          count |-> Cardinality(MissingCells(with[j]))]]
            /\ pc = "done" =>
                  results[1].missing_values_warning = missing_values_warning

\* column 1 has one missing cell and is listed with count 1, column 2 has
\* none and is not listed
C9_Witness ==
    /\ pc = "done"
    /\ Len(df) = 2
    /\ Cardinality(MissingCells(1)) = 1
    /\ MissingCells(2) = {}
    /\ missing_values_warning = Some(<<[name |-> df[1].name, count |-> 1]>>)

\* the rows of the sheet equal in every column to an earlier row
LaterCopies ==
    {r \in 1..NRows(sheet) :
        \E q \in 1..(r - 1) :
            \A c \in 1..Len(sheet) : sheet[c].vals[q] = sheet[c].vals[r]}

\* C10: the duplicate count is the number of rows equal in every column to
\* an earlier row; the warning is None exactly when the count is 0 and
\* otherwise carries the count; the report carries the warning.
C10_DuplicateCount ==
    pc \notin {"format", "missing", "duplicates", "normalize"} =>
        /\ duplicates = Cardinality(LaterCopies)
        /\ (duplicates_warning = None) <=> (duplicates = 0)
        /\ duplicates_warning # None => duplicates_warning[1] = duplicates
        /\ pc = "done" => results[1].duplicates_warning = duplicates_warning

\* a table of two identical rows: the count is 1
C10_Witness ==
    /\ pc = "done"
    /\ NRows(sheet) = 2
    /\ LaterCopies = {2}
    /\ duplicates_warning = Some(1)

====
